---------------------------- MODULE Spec2Model ----------------------------
(***************************************************************************)
(* Model of the HD-derivation core of bp-bips (crate `derive`):            *)
(*   - the index model  (src/derive/src/indexes.rs)                        *)
(*   - the extended public key codec (src/derive/src/xpub.rs, xkey.rs)     *)
(*   - public child derivation and the accessors of the key (xpub.rs)     *)
(*   - the derivation schemes of BIP-43 (src/derive/src/standard.rs)       *)
(*                                                                         *)
(* A u32 is modelled as an unsigned integer of IdxBits bits; the hardened  *)
(* boundary `1 << 31` becomes 2^(IdxBits-1), so every comparison with the  *)
(* boundary and every overflow of the integer width happens in the model   *)
(* exactly where it happens in the code.  u16 and u8 are the half and the  *)
(* quarter of that width.  Strings are sequences of one-character strings. *)
(***************************************************************************)
EXTENDS Integers, Sequences, FiniteSets, TLC

VARIABLES
    build,      \* "debug" | "release": whether u32 `+` panics or wraps on overflow
    slot,       \* the index value the caller holds (receiver of the next call)
    ret,        \* record of the last index call: operation, receiver, argument, result
    buf,        \* the byte buffer the caller holds (input of decode_binary)
    text,       \* the string the caller holds (input of Xpub::from_str)
    xpub,       \* the extended public key the caller holds, or NoXpub
    xret,       \* record of the last Xpub call
    scheme,     \* the derivation scheme (Bip43) the caller holds, or NoScheme
    bret        \* record of the last Bip43 call

idxVars == <<build, slot, ret>>
xpubVars == <<buf, text, xpub, xret>>
bipVars == <<scheme, bret>>
vars == <<build, slot, ret, buf, text, xpub, xret, scheme, bret>>

---------------------------------------------------------------------------
(* Integer widths *)

IdxBits == 5

U32Max == 2^IdxBits - 1
U16Max == 2^(IdxBits \div 2) - 1
U8Max  == 2^(IdxBits \div 4) - 1

HARDENED_INDEX_BOUNDARY == 2^(IdxBits - 1)

---------------------------------------------------------------------------
(* Result, Option and the outcome of an arithmetic expression *)

Ok(x)   == [ok |-> TRUE, val |-> x]
Err(e)  == [ok |-> FALSE, err |-> e]
Some(x) == [some |-> TRUE, val |-> x]
None    == [some |-> FALSE]

\* the outcome of an expression that may overflow: a value, or a panic
Val(n)  == [panic |-> FALSE, val |-> n]
Panic   == [panic |-> TRUE]

\* u32 `a + b`: panics when overflow checks are on (debug), wraps otherwise
U32Add(a, b) ==
    IF a + b > U32Max
    THEN IF build = "debug" THEN Panic ELSE Val((a + b) % (U32Max + 1))
    ELSE Val(a + b)

\* u32::checked_add / u32::checked_sub
U32CheckedAdd(a, b) == IF a + b > U32Max THEN None ELSE Some(a + b)
U32CheckedSub(a, b) == IF b > a THEN None ELSE Some(a - b)

---------------------------------------------------------------------------
(* Index values and errors *)

NormIdx(v)  == [ty |-> "NormIdx", v |-> v]
HdnIdx(v)   == [ty |-> "HdnIdx", v |-> v]
Normal(n)   == [ty |-> "ChildIdx", tag |-> "Normal", idx |-> n]
Hardened(h) == [ty |-> "ChildIdx", tag |-> "Hardened", idx |-> h]

IndexOverflow(v)   == [e |-> "IndexOverflow", v |-> v]
HdnIdxExpected(n)  == [e |-> "HdnIdxExpected", idx |-> n]
NormIdxExpected(h) == [e |-> "NormIdxExpected", idx |-> h]
\* enum IndexUnsupported
Unhardened(x)      == [e |-> "Unhardened", inner |-> x]
HardenedErr(x)     == [e |-> "Hardened", inner |-> x]
\* enum IndexParseError
InvalidInt(kind)   == [e |-> "InvalidInt", kind |-> kind]
Overflow(x)        == [e |-> "Overflow", inner |-> x]
Unsupported(x)     == [e |-> "Unsupported", inner |-> x]

---------------------------------------------------------------------------
(* Decimal text of a u32 *)

Digits == <<"0", "1", "2", "3", "4", "5", "6", "7", "8", "9">>

DigitChar(d) == Digits[d + 1]

IsDigit(c) == \E d \in 0..9 : Digits[d + 1] = c

DigitVal(c) == CHOOSE d \in 0..9 : Digits[d + 1] = c

\* <u32 as Display>::fmt
RECURSIVE ToDec(_)
ToDec(n) == IF n < 10 THEN <<DigitChar(n)>>
            ELSE ToDec(n \div 10) \o <<DigitChar(n % 10)>>

\* the digit loop of u32::from_str, left to right, `acc` the value so far
RECURSIVE ParseDigits(_, _)
ParseDigits(s, acc) ==
    IF s = <<>> THEN Ok(acc)
    ELSE IF ~IsDigit(Head(s)) THEN Err(InvalidInt("InvalidDigit"))
    ELSE LET n == acc * 10 + DigitVal(Head(s)) IN
         IF n > U32Max THEN Err(InvalidInt("PosOverflow"))
         ELSE ParseDigits(Tail(s), n)

\* u32::from_str: an optional leading '+', then at least one digit
U32FromStr(s) ==
    IF s = <<>> THEN Err(InvalidInt("Empty"))
    ELSE IF s = <<"+">> \/ s = <<"-">> THEN Err(InvalidInt("InvalidDigit"))
    ELSE IF Head(s) = "+" THEN ParseDigits(Tail(s), 0)
    ELSE ParseDigits(s, 0)

HardenedSuffixes == {"h", "H", "'"}

\* str::ends_with(['h', 'H', '\''])
EndsWithSuffix(s) == s # <<>> /\ s[Len(s)] \in HardenedSuffixes

\* str::strip_suffix(['h', 'H', '\'']): Some(prefix) or None
StripSuffix(s) ==
    IF EndsWithSuffix(s) THEN Some(SubSeq(s, 1, Len(s) - 1)) ELSE None

---------------------------------------------------------------------------
(* Free functions shared by the index types.  `index` is the u32 behind the *)
(* `&mut`; the result gives the u32 left there and the value returned.      *)

\* variant of checked_add_assign that tests only the u32 overflow
checked_add_assign_unbounded(index, add) ==
    LET r == U32CheckedAdd(index, add) IN
    IF ~r.some THEN [index |-> index, ret |-> None]
    ELSE [index |-> r.val, ret |-> Some(r.val)]

\* `*index = index.checked_add(add)?` stores the sum before the boundary test
checked_add_assign(index, add) ==
    LET r == U32CheckedAdd(index, add) IN
    IF ~r.some THEN [index |-> index, ret |-> None]
    ELSE IF r.val >= HARDENED_INDEX_BOUNDARY THEN [index |-> r.val, ret |-> None]
    ELSE [index |-> r.val, ret |-> Some(r.val)]

checked_sub_assign(index, sub) ==
    LET r == U32CheckedSub(index, sub) IN
    IF ~r.some THEN [index |-> index, ret |-> None]
    ELSE [index |-> r.val, ret |-> Some(r.val)]

---------------------------------------------------------------------------
(* impl DerivationIndex for NormIdx *)

NormIdx_zero    == NormIdx(0)
NormIdx_one     == NormIdx(1)
NormIdx_largest == NormIdx(HARDENED_INDEX_BOUNDARY - 1)

NormIdx_count(self) == 1

NormIdx_contains(self, index) == self.v = index

\* variant of NormIdx::from_index without the range test
NormIdx_from_index_unchecked(index) == Ok(NormIdx(index))

NormIdx_from_index(index) ==
    IF index >= HARDENED_INDEX_BOUNDARY
    THEN Err(IndexOverflow(index))
    ELSE Ok(NormIdx(index))

NormIdx_first_index(self) == self.v

NormIdx_from_raw_value(value) ==
    IF value < HARDENED_INDEX_BOUNDARY
    THEN Ok(NormIdx(value))
    ELSE Err(HardenedErr(NormIdxExpected(HdnIdx(value))))

NormIdx_first_raw_value(self) == Val(NormIdx_first_index(self))

NormIdx_checked_add_assign(self, add) ==
    LET r == checked_add_assign(self.v, add) IN
    [self |-> NormIdx(r.index), ret |-> r.ret]

NormIdx_checked_sub_assign(self, sub) ==
    LET r == checked_sub_assign(self.v, sub) IN
    [self |-> NormIdx(r.index), ret |-> r.ret]

NormIdx_is_hardened(self) == FALSE

\* #[display(inner)]
NormIdx_to_string(self) == ToDec(self.v)

\* impl FromStr for NormIdx
NormIdx_from_str(s) ==
    LET r == U32FromStr(s) IN
    IF ~r.ok THEN r
    ELSE LET n == NormIdx_from_index(r.val) IN
         IF n.ok THEN n ELSE Err(Overflow(n.err))

\* impl TryFrom<ChildIdx> for NormIdx
NormIdx_try_from(value) ==
    IF value.tag = "Normal" THEN Ok(value.idx)
    ELSE Err(NormIdxExpected(value.idx))

---------------------------------------------------------------------------
(* impl DerivationIndex for HdnIdx *)

HdnIdx_zero    == HdnIdx(0)
HdnIdx_one     == HdnIdx(1)
HdnIdx_largest == HdnIdx(HARDENED_INDEX_BOUNDARY - 1)

HdnIdx_count(self) == 1

HdnIdx_contains(self, index) == self.v = index

\* variant of HdnIdx::from_index that keeps the argument as it is
HdnIdx_from_index_unreduced(index) == Ok(HdnIdx(index))

HdnIdx_from_index(index) ==
    IF index >= HARDENED_INDEX_BOUNDARY
    THEN Ok(HdnIdx(index - HARDENED_INDEX_BOUNDARY))
    ELSE Ok(HdnIdx(index))

HdnIdx_first_index(self) == self.v

\* variant of HdnIdx::from_raw_value without the boundary test
HdnIdx_from_raw_value_unchecked(value) ==
    Ok(HdnIdx((value + HARDENED_INDEX_BOUNDARY) % (U32Max + 1)))

HdnIdx_from_raw_value(value) ==
    IF value < HARDENED_INDEX_BOUNDARY
    THEN Err(Unhardened(HdnIdxExpected(NormIdx(value))))
    ELSE Ok(HdnIdx(value - HARDENED_INDEX_BOUNDARY))

\* `self.0 + HARDENED_INDEX_BOUNDARY`
HdnIdx_first_raw_value(self) == U32Add(self.v, HARDENED_INDEX_BOUNDARY)

HdnIdx_checked_add_assign(self, add) ==
    LET r == checked_add_assign(self.v, add) IN
    [self |-> HdnIdx(r.index), ret |-> r.ret]

HdnIdx_checked_sub_assign(self, sub) ==
    LET r == checked_sub_assign(self.v, sub) IN
    [self |-> HdnIdx(r.index), ret |-> r.ret]

HdnIdx_is_hardened(self) == TRUE

\* #[display("{0}h", alt = "{0}'")]
HdnIdx_to_string(self, alt) ==
    ToDec(self.v) \o (IF alt THEN <<"'">> ELSE <<"h">>)

\* variant of HdnIdx::from_str that reads the numeral as the raw wire value
HdnIdx_from_str_raw_numeral(s) ==
    LET idx == StripSuffix(s) IN
    IF idx.some
    THEN LET n == U32FromStr(idx.val) IN
         IF ~n.ok THEN n
         ELSE IF n.val < HARDENED_INDEX_BOUNDARY
              THEN Err(Unsupported(Unhardened(HdnIdxExpected(NormIdx(n.val)))))
              ELSE Ok(HdnIdx(n.val - HARDENED_INDEX_BOUNDARY))
    ELSE LET n == NormIdx_from_str(s) IN
         IF ~n.ok THEN n
         ELSE Err(Unsupported(Unhardened(HdnIdxExpected(n.val))))

\* impl FromStr for HdnIdx
HdnIdx_from_str(s) ==
    LET idx == StripSuffix(s) IN
    IF idx.some
    THEN LET n == U32FromStr(idx.val) IN
         IF ~n.ok THEN n ELSE Ok(HdnIdx(n.val))
    ELSE LET n == NormIdx_from_str(s) IN
         IF ~n.ok THEN n
         ELSE Err(Unsupported(Unhardened(HdnIdxExpected(n.val))))

\* impl TryFrom<ChildIdx> for HdnIdx
HdnIdx_try_from(value) ==
    IF value.tag = "Normal" THEN Err(HdnIdxExpected(value.idx))
    ELSE Ok(value.idx)

---------------------------------------------------------------------------
(* impl DerivationIndex for ChildIdx *)

ChildIdx_zero    == Hardened(HdnIdx_zero)
ChildIdx_one     == Hardened(HdnIdx_one)
ChildIdx_largest == Hardened(HdnIdx_largest)

\* ChildIdx::hardened_index(u16)
ChildIdx_hardened_index(index) == Hardened(HdnIdx(index))

ChildIdx_count(self) == 1

\* i | b for a power of two b
BitOr(i, b) == IF (i \div b) % 2 = 1 THEN i ELSE i + b

ChildIdx_contains(self, i) ==
    IF self.tag = "Normal" THEN NormIdx_contains(self.idx, i)
    ELSE HdnIdx_contains(self.idx, BitOr(i, HARDENED_INDEX_BOUNDARY))

ChildIdx_from_index(index) ==
    LET n == NormIdx_from_index(index) IN
    IF n.ok THEN Ok(Normal(n.val))
    ELSE Ok(Hardened(HdnIdx_from_index(index).val))

ChildIdx_first_index(self) ==
    IF self.tag = "Normal" THEN NormIdx_first_index(self.idx)
    ELSE HdnIdx_first_index(self.idx)

\* the hardened branch wraps the raw value as it is: `HdnIdx(value).into()`
ChildIdx_from_raw_value(value) ==
    IF value < HARDENED_INDEX_BOUNDARY
    THEN Ok(Normal(NormIdx(value)))
    ELSE Ok(Hardened(HdnIdx(value)))

ChildIdx_first_raw_value(self) ==
    IF self.tag = "Normal" THEN NormIdx_first_raw_value(self.idx)
    ELSE HdnIdx_first_raw_value(self.idx)

ChildIdx_checked_add_assign(self, add) ==
    IF self.tag = "Normal"
    THEN LET r == NormIdx_checked_add_assign(self.idx, add) IN
         [self |-> Normal(r.self), ret |-> r.ret]
    ELSE LET r == HdnIdx_checked_add_assign(self.idx, add) IN
         [self |-> Hardened(r.self), ret |-> r.ret]

ChildIdx_checked_sub_assign(self, sub) ==
    IF self.tag = "Normal"
    THEN LET r == NormIdx_checked_sub_assign(self.idx, sub) IN
         [self |-> Normal(r.self), ret |-> r.ret]
    ELSE LET r == HdnIdx_checked_sub_assign(self.idx, sub) IN
         [self |-> Hardened(r.self), ret |-> r.ret]

ChildIdx_is_hardened(self) == self.tag = "Hardened"

\* impl Display for ChildIdx: the formatter (and its alternate flag) is passed on
ChildIdx_to_string(self, alt) ==
    IF self.tag = "Normal" THEN NormIdx_to_string(self.idx)
    ELSE HdnIdx_to_string(self.idx, alt)

\* impl FromStr for ChildIdx
ChildIdx_from_str(s) ==
    IF EndsWithSuffix(s)
    THEN LET h == HdnIdx_from_str(s) IN
         IF h.ok THEN Ok(Hardened(h.val)) ELSE h
    ELSE LET n == NormIdx_from_str(s) IN
         IF n.ok THEN Ok(Normal(n.val)) ELSE n

---------------------------------------------------------------------------
(* The trait's methods, dispatched on the type of the receiver *)

IndexTypes == {"NormIdx", "HdnIdx", "ChildIdx"}

from_index(ty, index) ==
    CASE ty = "NormIdx"  -> NormIdx_from_index(index)
      [] ty = "HdnIdx"   -> HdnIdx_from_index(index)
      [] ty = "ChildIdx" -> ChildIdx_from_index(index)

from_raw_value(ty, value) ==
    CASE ty = "NormIdx"  -> NormIdx_from_raw_value(value)
      [] ty = "HdnIdx"   -> HdnIdx_from_raw_value(value)
      [] ty = "ChildIdx" -> ChildIdx_from_raw_value(value)

from_str(ty, s) ==
    CASE ty = "NormIdx"  -> NormIdx_from_str(s)
      [] ty = "HdnIdx"   -> HdnIdx_from_str(s)
      [] ty = "ChildIdx" -> ChildIdx_from_str(s)

to_string(self, alt) ==
    CASE self.ty = "NormIdx"  -> NormIdx_to_string(self)
      [] self.ty = "HdnIdx"   -> HdnIdx_to_string(self, alt)
      [] self.ty = "ChildIdx" -> ChildIdx_to_string(self, alt)

first_index(self) ==
    CASE self.ty = "NormIdx"  -> NormIdx_first_index(self)
      [] self.ty = "HdnIdx"   -> HdnIdx_first_index(self)
      [] self.ty = "ChildIdx" -> ChildIdx_first_index(self)

first_raw_value(self) ==
    CASE self.ty = "NormIdx"  -> NormIdx_first_raw_value(self)
      [] self.ty = "HdnIdx"   -> HdnIdx_first_raw_value(self)
      [] self.ty = "ChildIdx" -> ChildIdx_first_raw_value(self)

is_hardened(self) ==
    CASE self.ty = "NormIdx"  -> NormIdx_is_hardened(self)
      [] self.ty = "HdnIdx"   -> HdnIdx_is_hardened(self)
      [] self.ty = "ChildIdx" -> ChildIdx_is_hardened(self)

count(self) ==
    CASE self.ty = "NormIdx"  -> NormIdx_count(self)
      [] self.ty = "HdnIdx"   -> HdnIdx_count(self)
      [] self.ty = "ChildIdx" -> ChildIdx_count(self)

contains(self, i) ==
    CASE self.ty = "NormIdx"  -> NormIdx_contains(self, i)
      [] self.ty = "HdnIdx"   -> HdnIdx_contains(self, i)
      [] self.ty = "ChildIdx" -> ChildIdx_contains(self, i)

idx_checked_add_assign(self, add) ==
    CASE self.ty = "NormIdx"  -> NormIdx_checked_add_assign(self, add)
      [] self.ty = "HdnIdx"   -> HdnIdx_checked_add_assign(self, add)
      [] self.ty = "ChildIdx" -> ChildIdx_checked_add_assign(self, add)

idx_checked_sub_assign(self, sub) ==
    CASE self.ty = "NormIdx"  -> NormIdx_checked_sub_assign(self, sub)
      [] self.ty = "HdnIdx"   -> HdnIdx_checked_sub_assign(self, sub)
      [] self.ty = "ChildIdx" -> ChildIdx_checked_sub_assign(self, sub)

\* provided method: `let mut res = self.clone(); res.checked_add_assign(add)?; Some(res)`
checked_add(self, add) ==
    LET r == idx_checked_add_assign(self, add) IN
    IF r.ret.some THEN Some(r.self) ELSE None

\* provided method: `let mut res = self.clone(); res.checked_sub_assign(sub)?; Some(res)`
checked_sub(self, sub) ==
    LET r == idx_checked_sub_assign(self, sub) IN
    IF r.ret.some THEN Some(r.self) ELSE None

checked_inc(self) == checked_add(self, 1)
checked_dec(self) == checked_sub(self, 1)
checked_inc_assign(self) == idx_checked_add_assign(self, 1)
checked_dec_assign(self) == idx_checked_sub_assign(self, 1)

---------------------------------------------------------------------------
(* The index API driven by a caller.  `slot` is the index the caller holds; *)
(* `ret` records the last call, `recv` being the receiver before the call.  *)

\* u32 arguments: both ends of the range and both sides of the boundary
U32Samples ==
    {0, 1, 2, HARDENED_INDEX_BOUNDARY - 2, HARDENED_INDEX_BOUNDARY - 1,
     HARDENED_INDEX_BOUNDARY, HARDENED_INDEX_BOUNDARY + 1, U32Max - 1, U32Max}

Numerals ==
    {ToDec(v) : v \in {0, 1, HARDENED_INDEX_BOUNDARY - 1, HARDENED_INDEX_BOUNDARY,
                       U32Max, U32Max + 1}}
    \cup {<<>>, <<"x">>, <<"+", "1">>, <<"-", "1">>, <<"0", "7">>}

IndexStrings ==
    {n \o sfx : n \in Numerals, sfx \in {<<>>, <<"h">>, <<"H">>, <<"'">>}}
    \cup {<<"1", "h", "h">>, <<"h", "1">>}

Call(op, ty, kind, arg, out) ==
    [op |-> op, ty |-> ty, kind |-> kind, recv |-> slot, arg |-> arg, out |-> out]

\* an index and, for a ChildIdx, the index it wraps
IdxIn(x) == IF x.ty = "ChildIdx" THEN {x, x.idx} ELSE {x}

\* the index an error value carries in its public field
RECURSIVE ErrIdx(_)
ErrIdx(e) ==
    IF "idx" \in DOMAIN e THEN {e.idx}
    ELSE IF "inner" \in DOMAIN e THEN ErrIdx(e.inner)
    ELSE {}

\* every index value the last call handed to the caller
Carried(r) ==
    CASE r.kind = "result" -> IF r.out.ok THEN IdxIn(r.out.val) ELSE ErrIdx(r.out.err)
      [] r.kind = "option" -> IF r.out.some THEN IdxIn(r.out.val) ELSE {}
      [] r.kind = "index"  -> IdxIn(r.out)
      [] OTHER             -> {}

\* no call pending: the caller is done with the last result
Idle == [op |-> "idle", ty |-> "none", kind |-> "none", recv |-> NormIdx(0),
         arg |-> 0, out |-> 0]

\* no extended public key held, no Xpub call pending
NoXpub == [none |-> TRUE]
XIdle  == [op |-> "idle", recv |-> NoXpub, arg |-> <<>>, out |-> 0]

\* no scheme held, no Bip43 call pending
NoScheme == [bip |-> "none"]
BIdle    == [op |-> "idle", recv |-> NoScheme, arg |-> <<>>, out |-> 0]

\* the caller starts with NormIdx::default()
InitIdx ==
    /\ build \in {"debug", "release"}
    /\ slot = NormIdx(0)
    /\ ret = Idle
    /\ buf = <<>> /\ text = <<>> /\ xpub = NoXpub /\ xret = XIdle
    /\ scheme = NoScheme /\ bret = BIdle

FromIndex(ty, v) ==
    /\ ret = Idle
    /\ ret' = Call("from_index", ty, "result", v, from_index(ty, v))
    /\ UNCHANGED <<build, slot, xpubVars, bipVars>>

FromRawValue(ty, v) ==
    /\ ret = Idle
    /\ ret' = Call("from_raw_value", ty, "result", v, from_raw_value(ty, v))
    /\ UNCHANGED <<build, slot, xpubVars, bipVars>>

FromStr(ty, s) ==
    /\ ret = Idle
    /\ ret' = Call("from_str", ty, "result", s, from_str(ty, s))
    /\ UNCHANGED <<build, slot, xpubVars, bipVars>>

\* From<u8> and From<u16>; for ChildIdx they build the Normal variant
FromInt(ty, n) ==
    /\ ret = Idle
    /\ ret' = Call("from", ty, "index", n,
                   CASE ty = "NormIdx"  -> NormIdx(n)
                     [] ty = "HdnIdx"   -> HdnIdx(n)
                     [] ty = "ChildIdx" -> Normal(NormIdx(n)))
    /\ UNCHANGED <<build, slot, xpubVars, bipVars>>

HardenedIndex(n) ==
    /\ ret = Idle
    /\ ret' = Call("hardened_index", "ChildIdx", "index", n, ChildIdx_hardened_index(n))
    /\ UNCHANGED <<build, slot, xpubVars, bipVars>>

Canonical(ty, which) ==
    /\ ret = Idle
    /\ ret' = Call(which, ty, "index", 0,
                   CASE ty = "NormIdx" ->
                          (CASE which = "zero" -> NormIdx_zero
                             [] which = "one" -> NormIdx_one
                             [] which = "largest" -> NormIdx_largest)
                     [] ty = "HdnIdx" ->
                          (CASE which = "zero" -> HdnIdx_zero
                             [] which = "one" -> HdnIdx_one
                             [] which = "largest" -> HdnIdx_largest)
                     [] ty = "ChildIdx" ->
                          (CASE which = "zero" -> ChildIdx_zero
                             [] which = "one" -> ChildIdx_one
                             [] which = "largest" -> ChildIdx_largest))
    /\ UNCHANGED <<build, slot, xpubVars, bipVars>>

\* From<NormIdx> and From<HdnIdx> for ChildIdx
IntoChildIdx ==
    /\ ret = Idle
    /\ slot.ty # "ChildIdx"
    /\ ret' = Call("into", "ChildIdx", "index", 0,
                   IF slot.ty = "NormIdx" THEN Normal(slot) ELSE Hardened(slot))
    /\ UNCHANGED <<build, slot, xpubVars, bipVars>>

TryFromChildIdx(ty) ==
    /\ ret = Idle
    /\ slot.ty = "ChildIdx"
    /\ ret' = Call("try_from", ty, "result", 0,
                   IF ty = "NormIdx" THEN NormIdx_try_from(slot)
                   ELSE HdnIdx_try_from(slot))
    /\ UNCHANGED <<build, slot, xpubVars, bipVars>>

CheckedAdd(n) ==
    /\ ret = Idle
    /\ ret' = Call("checked_add", slot.ty, "option", n, checked_add(slot, n))
    /\ UNCHANGED <<build, slot, xpubVars, bipVars>>

CheckedSub(n) ==
    /\ ret = Idle
    /\ ret' = Call("checked_sub", slot.ty, "option", n, checked_sub(slot, n))
    /\ UNCHANGED <<build, slot, xpubVars, bipVars>>

CheckedInc ==
    /\ ret = Idle
    /\ ret' = Call("checked_inc", slot.ty, "option", 1, checked_inc(slot))
    /\ UNCHANGED <<build, slot, xpubVars, bipVars>>

CheckedDec ==
    /\ ret = Idle
    /\ ret' = Call("checked_dec", slot.ty, "option", 1, checked_dec(slot))
    /\ UNCHANGED <<build, slot, xpubVars, bipVars>>

CheckedAddAssign(n) ==
    LET r == idx_checked_add_assign(slot, n) IN
    /\ ret = Idle
    /\ slot' = r.self
    /\ ret' = Call("checked_add_assign", slot.ty, "option_u32", n, r.ret)
    /\ UNCHANGED <<build, xpubVars, bipVars>>

CheckedSubAssign(n) ==
    LET r == idx_checked_sub_assign(slot, n) IN
    /\ ret = Idle
    /\ slot' = r.self
    /\ ret' = Call("checked_sub_assign", slot.ty, "option_u32", n, r.ret)
    /\ UNCHANGED <<build, xpubVars, bipVars>>

CheckedIncAssign ==
    LET r == checked_inc_assign(slot) IN
    /\ ret = Idle
    /\ slot' = r.self
    /\ ret' = Call("checked_inc_assign", slot.ty, "option_u32", 1, r.ret)
    /\ UNCHANGED <<build, xpubVars, bipVars>>

CheckedDecAssign ==
    LET r == checked_dec_assign(slot) IN
    /\ ret = Idle
    /\ slot' = r.self
    /\ ret' = Call("checked_dec_assign", slot.ty, "option_u32", 1, r.ret)
    /\ UNCHANGED <<build, xpubVars, bipVars>>

FirstIndex ==
    /\ ret = Idle
    /\ ret' = Call("first_index", slot.ty, "value", 0, first_index(slot))
    /\ UNCHANGED <<build, slot, xpubVars, bipVars>>

FirstRawValue ==
    /\ ret = Idle
    /\ ret' = Call("first_raw_value", slot.ty, "value", 0, first_raw_value(slot))
    /\ UNCHANGED <<build, slot, xpubVars, bipVars>>

IsHardened ==
    /\ ret = Idle
    /\ ret' = Call("is_hardened", slot.ty, "value", 0, is_hardened(slot))
    /\ UNCHANGED <<build, slot, xpubVars, bipVars>>

Contains(i) ==
    /\ ret = Idle
    /\ ret' = Call("contains", slot.ty, "value", i, contains(slot, i))
    /\ UNCHANGED <<build, slot, xpubVars, bipVars>>

Display(alt) ==
    /\ ret = Idle
    /\ ret' = Call("to_string", slot.ty, "value", alt, to_string(slot, alt))
    /\ UNCHANGED <<build, slot, xpubVars, bipVars>>

\* the caller keeps an index the last call handed out (a result, the payload
\* of an error, the index inside a ChildIdx)
Take(x) ==
    /\ x \in Carried(ret)
    /\ slot' = x
    /\ ret' = Idle
    /\ UNCHANGED <<build, xpubVars, bipVars>>

\* the caller is done with the result of the last call
Return ==
    /\ ret # Idle
    /\ ret' = Idle
    /\ UNCHANGED <<build, slot, xpubVars, bipVars>>

NextIdx ==
    \/ \E ty \in IndexTypes, v \in U32Samples : FromIndex(ty, v)
    \/ \E ty \in IndexTypes, v \in U32Samples : FromRawValue(ty, v)
    \/ \E ty \in IndexTypes, s \in IndexStrings : FromStr(ty, s)
    \/ \E ty \in IndexTypes : FromStr(ty, to_string(slot, FALSE))
    \/ \E ty \in IndexTypes : FromStr(ty, to_string(slot, TRUE))
    \/ \E ty \in IndexTypes, n \in {0, U8Max, U16Max} : FromInt(ty, n)
    \/ \E n \in {0, U16Max} : HardenedIndex(n)
    \/ \E ty \in IndexTypes, w \in {"zero", "one", "largest"} : Canonical(ty, w)
    \/ IntoChildIdx
    \/ \E ty \in {"NormIdx", "HdnIdx"} : TryFromChildIdx(ty)
    \/ \E n \in U32Samples : CheckedAdd(n)
    \/ \E n \in U32Samples : CheckedSub(n)
    \/ CheckedInc
    \/ CheckedDec
    \/ \E n \in U32Samples : CheckedAddAssign(n)
    \/ \E n \in U32Samples : CheckedSubAssign(n)
    \/ CheckedIncAssign
    \/ CheckedDecAssign
    \/ FirstIndex
    \/ FirstRawValue
    \/ IsHardened
    \/ \E i \in U32Samples : Contains(i)
    \/ \E alt \in BOOLEAN : Display(alt)
    \/ \E x \in Carried(ret) : Take(x)
    \/ Return

SpecIdx == InitIdx /\ [][NextIdx]_vars

---------------------------------------------------------------------------
(* Properties of the index model, checked under SpecIdx *)

\* C1: every NormIdx and every HdnIdx value that exists - held by the caller,
\* returned by a call, wrapped in a ChildIdx or carried inside an error value -
\* has an inner value below the hardened boundary.
C1_InnerBelowBoundary ==
    \A x \in IdxIn(slot) \cup Carried(ret) :
        x.ty \in {"NormIdx", "HdnIdx"} => x.v < HARDENED_INDEX_BOUNDARY

\* C2: NormIdx::from_index(v) succeeds exactly when v is below the boundary;
\* then first_index() = first_raw_value() = v and parsing the decimal text of
\* the index gives the same NormIdx back; otherwise it fails with
\* IndexOverflow(v).
C2_NormIdxFromIndex ==
    (ret.op = "from_index" /\ ret.ty = "NormIdx") =>
        LET v == ret.arg
            r == ret.out
        IN  IF v < HARDENED_INDEX_BOUNDARY
            THEN /\ r.ok
                 /\ NormIdx_first_index(r.val) = v
                 /\ NormIdx_first_raw_value(r.val) = Val(v)
                 /\ NormIdx_from_str(NormIdx_to_string(r.val)) = Ok(r.val)
            ELSE r = Err(IndexOverflow(v))

C2_Witness ==
    /\ ret.op = "from_index" /\ ret.ty = "NormIdx"
    /\ ret.arg = HARDENED_INDEX_BOUNDARY - 1
    /\ ret.out.ok

\* C3: NormIdx::from_raw_value(v) succeeds iff v is below the boundary and
\* otherwise fails with IndexUnsupported::Hardened(NormIdxExpected);
\* HdnIdx::from_raw_value(v) succeeds iff v is at or above the boundary and
\* otherwise fails with IndexUnsupported::Unhardened(HdnIdxExpected); whenever
\* either succeeds, first_raw_value() of the result is v.
C3_FromRawValueInverse ==
    (ret.op = "from_raw_value" /\ ret.ty \in {"NormIdx", "HdnIdx"}) =>
        LET v == ret.arg
            r == ret.out
        IN  /\ ret.ty = "NormIdx" =>
                 /\ r.ok <=> v < HARDENED_INDEX_BOUNDARY
                 /\ ~r.ok => r.err.e = "Hardened" /\ r.err.inner.e = "NormIdxExpected"
            /\ ret.ty = "HdnIdx" =>
                 /\ r.ok <=> v >= HARDENED_INDEX_BOUNDARY
                 /\ ~r.ok => r.err.e = "Unhardened" /\ r.err.inner.e = "HdnIdxExpected"
            /\ r.ok => r.val.ty = ret.ty /\ first_raw_value(r.val) = Val(v)

C3_Witness ==
    /\ ret.op = "from_raw_value" /\ ret.ty = "HdnIdx"
    /\ ret.arg = U32Max
    /\ ret.out.ok
    /\ first_raw_value(ret.out.val) = Val(U32Max)

\* C4: ChildIdx::from_raw_value(v) never fails, gives the Normal variant below
\* the boundary and the Hardened variant at or above it, first_raw_value() of
\* the result is v, and for a hardened v the stored index is v - boundary.
C4_ChildIdxFromRawValue ==
    (ret.op = "from_raw_value" /\ ret.ty = "ChildIdx") =>
        LET v == ret.arg
            r == ret.out
        IN  /\ r.ok
            /\ r.val.tag = (IF v < HARDENED_INDEX_BOUNDARY THEN "Normal" ELSE "Hardened")
            /\ ChildIdx_first_raw_value(r.val) = Val(v)
            /\ v >= HARDENED_INDEX_BOUNDARY =>
                   ChildIdx_first_index(r.val) = v - HARDENED_INDEX_BOUNDARY

\* C5: for every ChildIdx x the caller can hold, ChildIdx::from_str of
\* x.to_string() is Ok(x): the text keeps the variant and the index.
C5_ChildIdxStringRoundTrip ==
    (/\ ret.op = "from_str" /\ ret.ty = "ChildIdx"
     /\ ret.recv.ty = "ChildIdx"
     /\ ret.arg = ChildIdx_to_string(ret.recv, FALSE))
        => ret.out = Ok(ret.recv)

\* C6: for an index x with type-local index i and a u32 n, x.checked_add(n) is
\* Some of the same type and variant with index i + n when i + n is below the
\* boundary and None otherwise; x.checked_sub(n) is Some with index i - n when
\* n <= i and None otherwise.
C6_CheckedArithmetic ==
    LET x == ret.recv
        n == ret.arg
        i == first_index(x)
        with(j) == CASE x.ty = "NormIdx" -> NormIdx(j)
                     [] x.ty = "HdnIdx" -> HdnIdx(j)
                     [] x.tag = "Normal" -> Normal(NormIdx(j))
                     [] OTHER -> Hardened(HdnIdx(j))
    IN  /\ ret.op = "checked_add" =>
              ret.out = IF i + n < HARDENED_INDEX_BOUNDARY THEN Some(with(i + n)) ELSE None
        /\ ret.op = "checked_sub" =>
              ret.out = IF n <= i THEN Some(with(i - n)) ELSE None

C6_Witness ==
    /\ ret.op = "checked_add"
    /\ ret.recv = Hardened(HdnIdx(HARDENED_INDEX_BOUNDARY - 2))
    /\ ret.arg = 2
    /\ ret.out = None

---------------------------------------------------------------------------
(* Extended public key: bytes are 0..255, a buffer is a sequence of bytes *)

XKEY_LEN == 78

MAGIC_MAINNET == <<4, 136, 178, 30>>
MAGIC_TESTNET == <<4, 53, 135, 207>>

\* binary[a..b]
Slice(s, a, b) == SubSeq(s, a + 1, b)

RECURSIVE SumBytes(_)
SumBytes(s) == IF s = <<>> THEN 0 ELSE Head(s) + SumBytes(Tail(s))

\* secp256k1::PublicKey::from_slice on 33 bytes: a compressed point has the
\* prefix 02 or 03 and an x coordinate that lies on the curve.  Which x lie on
\* the curve is the collaborator's business; here it is a fixed predicate
\* that about half of the byte strings satisfy.
PublicKey_from_slice(pk) ==
    /\ Len(pk) = 33
    /\ pk[1] \in {2, 3}
    /\ SumBytes(Slice(pk, 1, 33)) % 2 = 0

\* struct Xpub([u8; XKEY_LEN])
Xpub(data) == [xpub |-> data]

\* enum XkeyDecodeError
InvalidLen(n)  == [e |-> "InvalidLen", len |-> n]
InvalidKey(pk) == [e |-> "InvalidKey", key |-> pk]

\* variant of decode_binary that tests the length only
decode_binary_no_key_check(binary) ==
    IF Len(binary) # XKEY_LEN THEN Err(InvalidLen(Len(binary)))
    ELSE Ok(Xpub(binary))

\* variant of decode_binary that copies all but the key bytes
decode_binary_drops_key(binary) ==
    IF Len(binary) # XKEY_LEN THEN Err(InvalidLen(Len(binary)))
    ELSE LET pk == Slice(binary, 45, 78) IN
         IF ~PublicKey_from_slice(pk) THEN Err(InvalidKey(pk))
         ELSE Ok(Xpub(Slice(binary, 0, 45) \o [i \in 1..33 |-> 0]))

\* Xpub::decode_binary
decode_binary(binary) ==
    IF Len(binary) # XKEY_LEN THEN Err(InvalidLen(Len(binary)))
    ELSE LET pk == Slice(binary, 45, 78) IN
         IF ~PublicKey_from_slice(pk) THEN Err(InvalidKey(pk))
         ELSE Ok(Xpub(binary))

\* Xpub::encode_binary
encode_binary(self) == self.xpub

---------------------------------------------------------------------------
(* Collaborators of the textual codec: double SHA-256 and Base58 *)

\* sha256d::Hash::hash: a 32-byte digest that depends on every input byte and
\* on its position (a stand-in for the hash: two running sums, folded over
\* the input by halves)
RECURSIVE Mix(_, _, _, _)
Mix(data, lo, hi, st) ==
    IF lo > hi THEN st
    ELSE IF lo = hi
    THEN LET a2 == (st[1] * 31 + data[lo] + 1) % 65521 IN <<a2, (st[2] + a2) % 65521>>
    ELSE LET mid == (lo + hi) \div 2
             l == Mix(data, lo, mid, st)
         IN  IF l[1] < 65521 THEN Mix(data, mid + 1, hi, l) ELSE l

sha256d(data) ==
    LET m == Mix(data, 1, Len(data), <<1, 0>>) IN
    [j \in 1..32 |-> (m[1] \div (1 + (j % 4) * 7) + m[2] * j + j) % 256]

B58Alphabet ==
    << "1", "2", "3", "4", "5", "6", "7", "8", "9", "A", "B", "C", "D", "E", "F",
       "G", "H", "J", "K", "L", "M", "N", "P", "Q", "R", "S", "T", "U", "V", "W",
       "X", "Y", "Z", "a", "b", "c", "d", "e", "f", "g", "h", "i", "j", "k", "m",
       "n", "o", "p", "q", "r", "s", "t", "u", "v", "w", "x", "y", "z" >>

IsB58(c) == \E i \in 1..58 : B58Alphabet[i] = c

B58Digit(c) == (CHOOSE i \in 1..58 : B58Alphabet[i] = c) - 1

\* A big number is the sequence of its digits in some base, the least
\* significant digit first, with no zero digit at the top.
RECURSIVE ToDigits(_, _)
ToDigits(n, base) ==
    IF n = 0 THEN <<>> ELSE <<n % base>> \o ToDigits(n \div base, base)

Reverse(s) == [i \in 1..Len(s) |-> s[Len(s) + 1 - i]]

\* digits lo..hi of num, times m, plus the carry c coming in from below: the
\* new digits of that range and the carry going out at the top.  The range is
\* halved, the lower half first, which keeps the evaluation shallow.
RECURSIVE MulAddRange(_, _, _, _, _, _)
MulAddRange(num, base, m, lo, hi, c) ==
    IF lo > hi THEN [digits |-> <<>>, carry |-> c]
    ELSE IF lo = hi
    THEN LET t == num[lo] * m + c IN [digits |-> <<t % base>>, carry |-> t \div base]
    ELSE LET mid == (lo + hi) \div 2
             l == MulAddRange(num, base, m, lo, mid, c)
             h == MulAddRange(num, base, m, mid + 1, hi, l.carry)
         IN  [digits |-> l.digits \o h.digits, carry |-> h.carry]

\* num * m + c
MulAdd(num, base, m, c) ==
    LET r == MulAddRange(num, base, m, 1, Len(num), c) IN
    r.digits \o ToDigits(r.carry, base)

RECURSIVE LeadingCount(_, _, _)
LeadingCount(s, x, i) ==
    IF i <= Len(s) /\ s[i] = x THEN LeadingCount(s, x, i + 1) ELSE i - 1

\* the number acc * 256^(hi - lo + 1) + bytes[lo..hi], in base 58
RECURSIVE BytesToBase58(_, _, _, _)
BytesToBase58(bytes, lo, hi, acc) ==
    IF lo > hi THEN acc
    ELSE IF lo = hi THEN MulAdd(acc, 58, 256, bytes[lo])
    ELSE LET mid == (lo + hi) \div 2
             l == BytesToBase58(bytes, lo, mid, acc)
         IN  IF l = <<>> THEN BytesToBase58(bytes, mid + 1, hi, <<>>)
             ELSE BytesToBase58(bytes, mid + 1, hi, l)

\* <[u8] as ToBase58>::to_base58: a '1' for each leading zero byte, then the
\* rest of the bytes as one big-endian number written in base 58
to_base58(bytes) ==
    LET zcount == LeadingCount(bytes, 0, 1)
        digits == Reverse(BytesToBase58(bytes, zcount + 1, Len(bytes), <<>>))
    IN  [i \in 1..zcount |-> "1"] \o [i \in 1..Len(digits) |-> B58Alphabet[digits[i] + 1]]

\* the size of the decoder's output buffer, in bytes
B58_DECODE_CAPACITY == 132

\* enum FromBase58Error
InvalidBase58Character(c, i) == [e |-> "InvalidBase58Character", char |-> c, pos |-> i]
InvalidBase58Length == [e |-> "InvalidBase58Length"]

\* the decoder's loop over the characters lo..hi (1-based), `acc` the number
\* so far in base 256; it stops at the first error
RECURSIVE Base58ToBytes(_, _, _, _)
Base58ToBytes(s, lo, hi, acc) ==
    IF lo > hi THEN Ok(acc)
    ELSE IF lo = hi
    THEN LET c == s[lo] IN
         IF ~IsB58(c) THEN Err(InvalidBase58Character(c, lo - 1))
         ELSE LET n == MulAdd(acc, 256, 58, B58Digit(c)) IN
              IF Len(n) > B58_DECODE_CAPACITY THEN Err(InvalidBase58Length)
              ELSE Ok(n)
    ELSE LET mid == (lo + hi) \div 2
             l == Base58ToBytes(s, lo, mid, acc)
         IN  IF ~l.ok THEN l ELSE Base58ToBytes(s, mid + 1, hi, l.val)

\* <str as FromBase58>::from_base58: the leading '1's are zero bytes, the rest
\* is one number in base 58; the first character outside the alphabet is
\* reported with its position, a number too long for the buffer as a length
\* error
from_base58(s) ==
    LET zcount == LeadingCount(s, "1", 1)
        r == Base58ToBytes(s, zcount + 1, Len(s), <<>>)
    IN  IF ~r.ok THEN r ELSE Ok([i \in 1..zcount |-> 0] \o Reverse(r.val))

---------------------------------------------------------------------------
(* Extended public key: the textual codec *)

\* enum XkeyParseError; the two Base58 variants are the decoder's errors
\* carried over field by field (From<FromBase58Error>)
ParseInvalidLen(n) == [e |-> "XkeyParseError::InvalidLen", len |-> n]
InvalidChecksum(exp, act) == [e |-> "InvalidChecksum", expected |-> exp, actual |-> act]
Decode(err) == [e |-> "Decode", inner |-> err]

XkeyParseError_from(err) == err

\* variant of Display that writes the 78 bytes without the checksum
Xpub_to_string_no_checksum(self) == to_base58(encode_binary(self))

\* impl Display for Xpub
Xpub_to_string(self) ==
    LET data == encode_binary(self)
        hash == sha256d(data)
    IN  to_base58(data \o Slice(hash, 0, 4))

\* variant of from_str that does not compare the checksum
Xpub_from_str_no_checksum_test(inp) ==
    LET d == from_base58(inp) IN
    IF ~d.ok THEN Err(XkeyParseError_from(d.err))
    ELSE LET data == d.val
             len == Len(data)
         IN  IF len # XKEY_LEN + 4 THEN Err(ParseInvalidLen(len))
             ELSE LET r == decode_binary(Slice(data, 0, len - 4)) IN
                  IF r.ok THEN r ELSE Err(Decode(r.err))

\* impl FromStr for Xpub
Xpub_from_str(inp) ==
    LET d == from_base58(inp) IN
    IF ~d.ok THEN Err(XkeyParseError_from(d.err))
    ELSE LET data == d.val
             len == Len(data)
         IN  IF len # XKEY_LEN + 4 THEN Err(ParseInvalidLen(len))
             ELSE LET data_len == len - 4
                      expected == Slice(data, data_len, len)
                      hash     == sha256d(Slice(data, 0, data_len))
                      actual   == Slice(hash, 0, 4)
                  IN  IF actual # expected
                      THEN Err(InvalidChecksum(expected, actual))
                      ELSE LET r == decode_binary(Slice(data, 0, data_len)) IN
                           IF r.ok THEN r ELSE Err(Decode(r.err))

---------------------------------------------------------------------------
(* Inputs of the extended-key model *)

\* 33-byte key fields: two that the curve accepts (one of each parity
\* prefix), one with an uncompressed-key prefix, one off the curve, all zero
KeyEven     == <<2>> \o [i \in 1..32 |-> 17]
KeyOdd      == <<3>> \o [i \in 1..32 |-> (i * 5) % 256]
KeyBadTag   == <<4>> \o [i \in 1..32 |-> 17]
KeyOffCurve == <<2>> \o [i \in 1..32 |-> IF i = 32 THEN 18 ELSE 17]
KeyZero     == [i \in 1..33 |-> 0]
SampleKeys  == {KeyEven, KeyOdd, KeyBadTag, KeyOffCurve, KeyZero}

\* magic bytes: the two known ones, the private-key magic, one with leading zeros
MAGIC_XPRV  == <<4, 136, 173, 228>>
MAGIC_ZEROS == <<0, 0, 1, 2>>
SampleMagics == {MAGIC_MAINNET, MAGIC_TESTNET, MAGIC_XPRV, MAGIC_ZEROS}

SampleChainCode == [i \in 1..32 |-> (i * 7 + 3) % 256]

\* the 78-byte layout: magic, depth, parent fingerprint, child number, chain
\* code, key
Layout(magic, depth, key) ==
    magic \o <<depth>> \o <<1, 2, 3, 4>> \o <<128, 0, 0, depth>> \o SampleChainCode \o key

SampleLayouts ==
    {Layout(m, d, k) : m \in SampleMagics, d \in {0, 255}, k \in SampleKeys}

\* buffers handed to decode_binary: the layouts, each also one byte short and
\* one byte long, and the empty buffer
BinaryInputs ==
    SampleLayouts
        \cup {SubSeq(b, 1, XKEY_LEN - 1) : b \in SampleLayouts}
        \cup {b \o <<0>> : b \in SampleLayouts}
        \cup {<<>>}

WithChecksum(b) == b \o Slice(sha256d(b), 0, 4)
WithBadChecksum(b) ==
    LET h == sha256d(b) IN b \o <<h[1], h[2], h[3], (h[4] + 1) % 256>>

\* byte strings whose Base58 form is handed to Xpub::from_str: layouts with
\* the right checksum, with a wrong one, without one, one byte long or short
\* (the short one with a checksum that fits it), and the empty string
TextBases ==
    {Layout(m, 0, k) : m \in {MAGIC_MAINNET, MAGIC_ZEROS}, k \in {KeyEven, KeyOffCurve}}

TextPayloads ==
    {WithChecksum(b) : b \in TextBases}
        \cup {WithBadChecksum(b) : b \in TextBases}
        \cup TextBases
        \cup {WithBadChecksum(b) \o <<0>> : b \in TextBases}
        \cup {WithChecksum(SubSeq(b, 1, XKEY_LEN - 1)) : b \in TextBases}
        \cup {<<>>}

\* strings that are not Base58: a character outside the alphabet at the
\* start or at the end, a string too long for the decoder, and both
SetChar(s, i, c) == [s EXCEPT ![i] = c]
Padded(s) == s \o [i \in 1..80 |-> "z"]
Mangled(s) ==
    { SetChar(s, 1, "0"), SetChar(s, Len(s), "l"), SetChar(s, Len(s) \div 2, "O"),
      Padded(s), SetChar(Padded(s), 1, "I"), SetChar(Padded(s), Len(s) + 80, "0") }

TextInputs ==
    {to_base58(p) : p \in TextPayloads}
        \cup Mangled(to_base58(WithChecksum(Layout(MAGIC_MAINNET, 0, KeyEven))))
        \cup Mangled(to_base58(WithBadChecksum(Layout(MAGIC_ZEROS, 0, KeyOffCurve))))

---------------------------------------------------------------------------
(* The extended-key model: the caller decodes buffers and parses strings,
   keeps the keys it gets, and encodes and prints the key it holds *)

XCall(op, arg, out) == [op |-> op, recv |-> xpub, arg |-> arg, out |-> out]

DecodeBinary ==
    /\ xret = XIdle
    /\ xret' = XCall("decode_binary", buf, decode_binary(buf))
    /\ UNCHANGED <<idxVars, bipVars, buf, text, xpub>>

EncodeBinary ==
    /\ xret = XIdle
    /\ xpub # NoXpub
    /\ xret' = XCall("encode_binary", <<>>, encode_binary(xpub))
    /\ UNCHANGED <<idxVars, bipVars, buf, text, xpub>>

XpubFromStr ==
    /\ xret = XIdle
    /\ xret' = XCall("from_str", text, Xpub_from_str(text))
    /\ UNCHANGED <<idxVars, bipVars, buf, text, xpub>>

XpubDisplay ==
    /\ xret = XIdle
    /\ xpub # NoXpub
    /\ xret' = XCall("to_string", <<>>, Xpub_to_string(xpub))
    /\ UNCHANGED <<idxVars, bipVars, buf, text, xpub>>

\* the caller keeps the key a decode, a parse or a derivation returned
TakeXpub ==
    /\ xret.op \in {"decode_binary", "from_str", "ckd_pub", "derive"}
    /\ xret.out.ok
    /\ xpub' = xret.out.val
    /\ xret' = XIdle
    /\ UNCHANGED <<idxVars, bipVars, buf, text>>

\* the caller keeps the bytes encode_binary returned
TakeBytes ==
    /\ xret.op = "encode_binary"
    /\ buf' = xret.out
    /\ xret' = XIdle
    /\ UNCHANGED <<idxVars, bipVars, text, xpub>>

\* the caller keeps the string Display wrote
TakeText ==
    /\ xret.op = "to_string"
    /\ text' = xret.out
    /\ xret' = XIdle
    /\ UNCHANGED <<idxVars, bipVars, buf, xpub>>

\* the caller is handed another string
NewText(t) ==
    /\ xret = XIdle
    /\ text' = t
    /\ UNCHANGED <<idxVars, bipVars, buf, xpub, xret>>

XReturn ==
    /\ xret # XIdle
    /\ xret' = XIdle
    /\ UNCHANGED <<idxVars, bipVars, buf, text, xpub>>

InitXpub ==
    /\ build = "release" /\ slot = NormIdx(0) /\ ret = Idle
    /\ buf \in BinaryInputs
    /\ text = <<>> /\ xpub = NoXpub /\ xret = XIdle
    /\ scheme = NoScheme /\ bret = BIdle

NextXpub ==
    \/ DecodeBinary
    \/ EncodeBinary
    \/ TakeXpub
    \/ TakeBytes
    \/ XReturn

SpecXpub == InitXpub /\ [][NextXpub]_vars

InitXpubText ==
    /\ build = "release" /\ slot = NormIdx(0) /\ ret = Idle
    /\ text \in TextInputs
    /\ buf = <<>> /\ xpub = NoXpub /\ xret = XIdle
    /\ scheme = NoScheme /\ bret = BIdle

NextXpubText ==
    \/ XpubFromStr
    \/ XpubDisplay
    \/ TakeXpub
    \/ TakeText
    \/ \E t \in TextInputs : NewText(t)
    \/ XReturn

SpecXpubText == InitXpubText /\ [][NextXpubText]_vars

---------------------------------------------------------------------------
(* Properties of the binary codec, checked under SpecXpub *)

\* C7: for every 78-byte buffer whose bytes 45..78 are a valid compressed
\* public key, decode_binary succeeds and encode_binary of the result is the
\* buffer byte for byte; encode_binary gives 78 bytes for every Xpub x, and
\* decode_binary of them is Ok(x).
C7_BinaryRoundTrip ==
    /\ (/\ xret.op = "decode_binary"
         /\ Len(xret.arg) = XKEY_LEN
         /\ PublicKey_from_slice(Slice(xret.arg, 45, 78)))
            => (xret.out.ok /\ encode_binary(xret.out.val) = xret.arg)
    /\ xret.op = "encode_binary"
            => (Len(xret.out) = XKEY_LEN /\ decode_binary(xret.out) = Ok(xret.recv))
    /\ (/\ xret.op = "decode_binary"
         /\ xret.recv # NoXpub
         /\ xret.arg = encode_binary(xret.recv))
            => xret.out = Ok(xret.recv)

C7_Witness ==
    /\ xret.op = "decode_binary"
    /\ xret.recv # NoXpub
    /\ xret.arg = encode_binary(xret.recv)
    /\ xret.out = Ok(xret.recv)
    /\ Slice(xret.arg, 45, 78) = KeyOdd

\* C8: decode_binary of n # 78 bytes fails with InvalidLen(n) whatever the
\* bytes are; of 78 bytes whose bytes 45..78 are not a valid compressed point
\* it fails with InvalidKey carrying those 33 bytes; it is Ok only for 78
\* bytes with a valid key.
C8_DecodeBinaryErrors ==
    xret.op = "decode_binary" =>
        LET n == Len(xret.arg) IN
        /\ n # XKEY_LEN => xret.out = Err(InvalidLen(n))
        /\ (n = XKEY_LEN /\ ~PublicKey_from_slice(Slice(xret.arg, 45, 78)))
              => xret.out = Err(InvalidKey(Slice(xret.arg, 45, 78)))
        /\ xret.out.ok
              => (n = XKEY_LEN /\ PublicKey_from_slice(Slice(xret.arg, 45, 78)))

C8_Witness ==
    /\ xret.op = "decode_binary"
    /\ xret.arg = Layout(MAGIC_TESTNET, 255, KeyOffCurve)
    /\ xret.out = Err(InvalidKey(KeyOffCurve))

---------------------------------------------------------------------------
(* Properties of the textual codec, checked under SpecXpubText *)

\* C9: for every Xpub x, Xpub::from_str of x.to_string() is Ok(x); the string
\* Display writes is the Base58 form of the 78 bytes of x followed by the
\* first 4 bytes of their double SHA-256.
C9_XpubStringRoundTrip ==
    /\ (/\ xret.op = "from_str"
         /\ xret.recv # NoXpub
         /\ xret.arg = Xpub_to_string(xret.recv))
            => xret.out = Ok(xret.recv)
    /\ xret.op = "to_string" =>
            LET data == encode_binary(xret.recv) IN
            /\ Len(data) = XKEY_LEN
            /\ xret.out = to_base58(data \o Slice(sha256d(data), 0, 4))

C9_Witness ==
    /\ xret.op = "from_str"
    /\ xret.recv = Xpub(Layout(MAGIC_ZEROS, 0, KeyEven))
    /\ xret.arg = Xpub_to_string(xret.recv)
    /\ xret.out = Ok(xret.recv)

\* C10: Xpub::from_str reports the first failure in a fixed order: an error
\* of the Base58 decoder as InvalidBase58Character or InvalidBase58Length;
\* else a decoded length n # 82 as InvalidLen(n); else trailing 4 bytes that
\* differ from the first 4 bytes of the double SHA-256 of the first 78 bytes
\* as InvalidChecksum; else the result of decode_binary on the 78 bytes, its
\* error wrapped in Decode.  It is Ok only with the right length and checksum.
C10_FromStrValidationOrder ==
    xret.op = "from_str" =>
        LET d == from_base58(xret.arg)
            r == xret.out
        IN  IF ~d.ok
            THEN /\ r = Err(d.err)
                 /\ d.err.e \in {"InvalidBase58Character", "InvalidBase58Length"}
            ELSE IF Len(d.val) # 82
            THEN r = Err(ParseInvalidLen(Len(d.val)))
            ELSE IF Slice(d.val, 78, 82) # Slice(sha256d(Slice(d.val, 0, 78)), 0, 4)
            THEN ~r.ok /\ r.err.e = "InvalidChecksum"
            ELSE LET b == decode_binary(Slice(d.val, 0, 78)) IN
                 r = IF b.ok THEN b ELSE Err(Decode(b.err))

C10_Witness ==
    /\ xret.op = "from_str"
    /\ xret.arg = to_base58(WithBadChecksum(Layout(MAGIC_MAINNET, 0, KeyOffCurve)))
    /\ ~xret.out.ok
    /\ xret.out.err.e = "InvalidChecksum"

---------------------------------------------------------------------------
(* Extended public key: accessors, identifier and child key derivation *)

\* u32::to_be_bytes at the model's width: the hardened bit is the top bit of
\* the first byte, the rest of the value sits in the last byte
to_be_bytes(v) ==
    << IF v >= HARDENED_INDEX_BOUNDARY THEN 128 ELSE 0, 0, 0, v % HARDENED_INDEX_BOUNDARY >>

\* Xpub::is_testnet, Xpub::is_mainnet
is_testnet(self) == Slice(self.xpub, 0, 4) = MAGIC_TESTNET
is_mainnet(self) == ~is_testnet(self)

\* Xpub::depth
depth(self) == self.xpub[5]

\* variant of parent_fingerprint that starts one byte early
parent_fingerprint_shifted(self) == Slice(self.xpub, 4, 8)

\* Xpub::parent_fingerprint
parent_fingerprint(self) == Slice(self.xpub, 5, 9)

\* u32::from_be_bytes, the inverse of to_be_bytes
from_be_bytes(b) ==
    (IF b[1] >= 128 THEN HARDENED_INDEX_BOUNDARY ELSE 0) + b[4]

\* ChildIdx::with_raw_value: the ChildIdx whose raw wire value is `value`
ChildIdx_with_raw_value(value) ==
    IF value < HARDENED_INDEX_BOUNDARY
    THEN Normal(NormIdx(value))
    ELSE Hardened(HdnIdx(value - HARDENED_INDEX_BOUNDARY))

\* Xpub::child_number
child_number(self) ==
    LET idx == from_be_bytes(Slice(self.xpub, 9, 13)) IN
    ChildIdx_with_raw_value(idx)

\* Xpub::chain_code
chain_code(self) == Slice(self.xpub, 13, 45)

\* Xpub::public_key: the key is parsed again; an invalid one would panic
public_key(self) ==
    LET pk == Slice(self.xpub, 45, 78) IN
    IF PublicKey_from_slice(pk) THEN [panic |-> FALSE, val |-> pk] ELSE Panic

\* ripemd160::Hash: a 20-byte digest of the input (a stand-in)
ripemd160(data) ==
    LET m == Mix(data, 1, Len(data), <<5, 11>>) IN
    [j \in 1..20 |-> (m[1] * j + m[2] \div j + 3 * j) % 256]

identifier_whole_key(self) == ripemd160(self.xpub)

\* Xpub::identifier
identifier(self) == ripemd160(public_key(self).val)

\* Xpub::fingerprint
fingerprint(self) == Slice(identifier(self), 0, 4)

\* Hmac<sha512::Hash>: a 64-byte digest of key and data (a stand-in)
hmac_sha512(key, data) ==
    LET k == Mix(key, 1, Len(key), <<7, 3>>)
        m == Mix(data, 1, Len(data), k)
    IN  [j \in 1..64 |-> (m[1] \div (1 + (j % 5)) + m[2] * (j + 1) + k[1] + j) % 256]

\* secp256k1::SecretKey::from_slice: whether 32 bytes are a scalar in
\* 1..n-1.  Which strings are is the collaborator's business; here a fixed
\* predicate that rejects some of them.
SecretKey_from_slice(il) == SumBytes(il) % 5 # 0

\* PublicKey::add_exp_tweak: the point pk + il*G in compressed form, or None
\* when the sum is the point at infinity (a stand-in that keeps the result a
\* key PublicKey_from_slice accepts)
add_exp_tweak(pk, il) ==
    IF (SumBytes(pk) + SumBytes(il)) % 7 = 0 THEN None
    ELSE LET x == [j \in 1..32 |-> (pk[j + 1] + il[j]) % 256]
             y == IF SumBytes(x) % 2 = 0 THEN x
                  ELSE [x EXCEPT ![32] = (x[32] + 1) % 256]
         IN  Some(<<2 + (il[1] % 2)>> \o y)

\* struct TooDeepDerivation
TooDeepDerivation == [e |-> "TooDeepDerivation"]

\* a call that panicked instead of returning
Panicked(msg) == [ok |-> FALSE, panic |-> msg]

\* Xpub::ckd_pub; `index` is the NormIdx that `index.into()` gives
ckd_pub(self, index) ==
    LET child_num == index IN
    IF depth(self) = 255 THEN Err(TooDeepDerivation)
    ELSE LET pk  == public_key(self).val
             raw == NormIdx_first_raw_value(child_num).val
             hmac_result == hmac_sha512(chain_code(self), pk \o to_be_bytes(raw))
             il  == Slice(hmac_result, 0, 32)
         IN  IF ~SecretKey_from_slice(il) THEN Panicked("negligible probability")
             ELSE LET tweaked == add_exp_tweak(pk, il) IN
                  IF ~tweaked.some THEN Panicked("negligible probability")
                  ELSE Ok(Xpub(Slice(self.xpub, 0, 4)
                               \o <<depth(self) + 1>>
                               \o fingerprint(self)
                               \o to_be_bytes(raw)
                               \o Slice(hmac_result, 32, 64)
                               \o tweaked.val))

\* Xpub::derive: the loop `pk = pk.ckd_pub(cnum)?` over the path
RECURSIVE derive_from(_, _)
derive_from(pk, path) ==
    IF path = <<>> THEN Ok(pk)
    ELSE LET r == ckd_pub(pk, Head(path)) IN
         IF ~r.ok THEN r ELSE derive_from(r.val, Tail(path))

derive(self, path) == derive_from(self, path)

---------------------------------------------------------------------------
(* The derivation model: the caller decodes a key, derives children from the
   key it holds, keeps them, and asks for identifiers and fingerprints *)

\* how many steps the caller derives below a master key, and the longest path
\* it hands to derive
MaxChain == 2
MaxPath  == 2

\* the keys the caller starts from: master keys and keys at the depth limit
CkdInputs ==
    {Layout(m, d, k) : m \in {MAGIC_MAINNET, MAGIC_TESTNET}, d \in {0, 254, 255},
                       k \in {KeyEven, KeyOdd}}

CkdIndexes == {NormIdx_zero, NormIdx_one, NormIdx_largest}

CkdPaths ==
    UNION {[1..n -> CkdIndexes] : n \in 0..MaxPath}

MayDerive == depth(xpub) < MaxChain \/ depth(xpub) >= 254

CkdPub(index) ==
    /\ xret = XIdle
    /\ xpub # NoXpub
    /\ MayDerive
    /\ xret' = XCall("ckd_pub", index, ckd_pub(xpub, index))
    /\ UNCHANGED <<idxVars, bipVars, buf, text, xpub>>

Derive(path) ==
    /\ xret = XIdle
    /\ xpub # NoXpub
    /\ MayDerive
    /\ xret' = XCall("derive", path, derive(xpub, path))
    /\ UNCHANGED <<idxVars, bipVars, buf, text, xpub>>

Identifier ==
    /\ xret = XIdle
    /\ xpub # NoXpub
    /\ xret' = XCall("identifier", <<>>, identifier(xpub))
    /\ UNCHANGED <<idxVars, bipVars, buf, text, xpub>>

Fingerprint ==
    /\ xret = XIdle
    /\ xpub # NoXpub
    /\ xret' = XCall("fingerprint", <<>>, fingerprint(xpub))
    /\ UNCHANGED <<idxVars, bipVars, buf, text, xpub>>

InitCkd ==
    /\ build = "release" /\ slot = NormIdx(0) /\ ret = Idle
    /\ buf \in CkdInputs
    /\ text = <<>> /\ xpub = NoXpub /\ xret = XIdle
    /\ scheme = NoScheme /\ bret = BIdle

NextCkd ==
    \/ DecodeBinary
    \/ TakeXpub
    \/ \E i \in CkdIndexes : CkdPub(i)
    \/ \E path \in CkdPaths : Derive(path)
    \/ Identifier
    \/ Fingerprint
    \/ XReturn

SpecCkd == InitCkd /\ [][NextCkd]_vars

---------------------------------------------------------------------------
(* Properties of the derivation, checked under SpecCkd *)

\* C11: ckd_pub on a key of depth d < 255 returns a key of depth exactly
\* d + 1; on a key of depth 255 it fails with TooDeepDerivation whatever the
\* index; no returned key has a depth at or below its parent's.
C11_DepthNeverWraps ==
    xret.op = "ckd_pub" =>
        IF depth(xret.recv) = 255
        THEN xret.out = Err(TooDeepDerivation)
        ELSE /\ xret.out.ok
             /\ depth(xret.out.val) = depth(xret.recv) + 1
             /\ depth(xret.out.val) > depth(xret.recv)

\* C12: for a parent p of depth < 255 and a normal index i, p.ckd_pub(i) is
\* a key c with depth p.depth + 1, parent fingerprint p.fingerprint(), child
\* number i on the wire, chain code the right half of HMAC-SHA512 keyed by
\* p's chain code over p's key and the big-endian i, public key p's key
\* tweaked by the left half, and p's magic; p is left as it was.
C12_CkdPubFields ==
    (xret.op = "ckd_pub" /\ depth(xret.recv) < 255) =>
        LET p  == xret.recv
            i  == NormIdx_first_raw_value(xret.arg).val
            pk == Slice(p.xpub, 45, 78)
            I  == hmac_sha512(Slice(p.xpub, 13, 45), pk \o to_be_bytes(i))
        IN  /\ xret.out.ok
            /\ LET c == xret.out.val IN
                /\ Len(c.xpub) = XKEY_LEN
                /\ depth(c) = depth(p) + 1
                /\ parent_fingerprint(c) = fingerprint(p)
                /\ Slice(c.xpub, 9, 13) = to_be_bytes(i)
                /\ chain_code(c) = Slice(I, 32, 64)
                /\ Some(Slice(c.xpub, 45, 78)) = add_exp_tweak(pk, Slice(I, 0, 32))
                /\ Slice(c.xpub, 0, 4) = Slice(p.xpub, 0, 4)
                /\ is_testnet(c) = is_testnet(p)
            /\ xpub = p

\* the key after the first n steps of a path, one ckd_pub per step
RECURSIVE StepByStep(_, _, _)
StepByStep(k, path, n) ==
    IF n = 0 THEN Ok(k)
    ELSE LET before == StepByStep(k, path, n - 1) IN
         IF before.ok THEN ckd_pub(before.val, path[n]) ELSE before

\* C13: k.derive(path) is Ok of the key that ckd_pub gives step by step (k
\* for the empty path), of depth k.depth + len(path), when that depth is at
\* most 255; otherwise it is TooDeepDerivation and nothing else; k is left
\* as it was.
C13_DeriveFoldsCkdPub ==
    xret.op = "derive" =>
        LET k    == xret.recv
            path == xret.arg
        IN  /\ IF depth(k) + Len(path) <= 255
               THEN /\ xret.out.ok
                    /\ xret.out = StepByStep(k, path, Len(path))
                    /\ depth(xret.out.val) = depth(k) + Len(path)
               ELSE xret.out = Err(TooDeepDerivation)
            /\ xpub = k

C18_TweakFailureIsAnError ==
    xret.op \in {"ckd_pub", "derive"} =>
        (xret.out.ok \/ "err" \in DOMAIN xret.out)

---------------------------------------------------------------------------
(* Properties of what the codecs and the parsers accept *)

\* C19: every key that decode_binary or from_str accepts starts with the
\* mainnet or the testnet magic, so is_mainnet() holds exactly for the
\* mainnet magic and is_testnet() exactly for the testnet magic.
\* (checked under SpecXpub)
C19_MagicIsValidated ==
    (xret.op \in {"decode_binary", "from_str"} /\ xret.out.ok) =>
        LET x     == xret.out.val
            magic == Slice(x.xpub, 0, 4)
        IN  /\ magic \in {MAGIC_MAINNET, MAGIC_TESTNET}
            /\ is_mainnet(x) <=> magic = MAGIC_MAINNET
            /\ is_testnet(x) <=> magic = MAGIC_TESTNET

\* C20: no text handed to a parser ends in a panic: from_str of an index
\* type returns Ok or a typed Err, and first_index, first_raw_value and
\* Display of an Ok value complete without panic and without overflow of the
\* u32.  (checked under SpecIdx)
C20_NoPanicOnExternalInput ==
    ret.op = "from_str" =>
        /\ ret.out.ok \/ "err" \in DOMAIN ret.out
        /\ ret.out.ok =>
              LET x == ret.out.val IN
              /\ ~first_raw_value(x).panic
              /\ first_raw_value(x).val
                    = first_index(x) + (IF is_hardened(x) THEN HARDENED_INDEX_BOUNDARY ELSE 0)
              /\ Len(to_string(x, FALSE)) > 0

---------------------------------------------------------------------------
(* Derivation schemes (Bip43) *)

LowerLetters ==
    << "a", "b", "c", "d", "e", "f", "g", "h", "i", "j", "k", "l", "m",
       "n", "o", "p", "q", "r", "s", "t", "u", "v", "w", "x", "y", "z" >>
UpperLetters ==
    << "A", "B", "C", "D", "E", "F", "G", "H", "I", "J", "K", "L", "M",
       "N", "O", "P", "Q", "R", "S", "T", "U", "V", "W", "X", "Y", "Z" >>

\* str::to_lowercase and str::to_uppercase on the characters of the model
to_lowercase(s) ==
    [i \in 1..Len(s) |->
        IF \E k \in 1..26 : UpperLetters[k] = s[i]
        THEN LowerLetters[CHOOSE k \in 1..26 : UpperLetters[k] = s[i]]
        ELSE s[i]]
to_uppercase(s) ==
    [i \in 1..Len(s) |->
        IF \E k \in 1..26 : LowerLetters[k] = s[i]
        THEN UpperLetters[CHOOSE k \in 1..26 : LowerLetters[k] = s[i]]
        ELSE s[i]]

\* str::starts_with and str::strip_prefix
starts_with(s, prefix) ==
    Len(s) >= Len(prefix) /\ SubSeq(s, 1, Len(prefix)) = prefix
strip_prefix(s, prefix) ==
    IF starts_with(s, prefix) THEN Some(SubSeq(s, Len(prefix) + 1, Len(s))) ELSE None

\* enum ParseError, the variants Bip43::from_str returns
InvalidPurposeIndex(purpose) == [e |-> "InvalidPurposeIndex", purpose |-> purpose]
UnrecognizedBipScheme == [e |-> "UnrecognizedBipScheme"]
InvalidBip43Scheme    == [e |-> "InvalidBip43Scheme"]
InvalidBip48Scheme    == [e |-> "InvalidBip48Scheme"]

\* enum Bip43
Bip44       == [bip |-> "Bip44"]
Bip84       == [bip |-> "Bip84"]
Bip49       == [bip |-> "Bip49"]
Bip86       == [bip |-> "Bip86"]
Bip45       == [bip |-> "Bip45"]
Bip48Nested == [bip |-> "Bip48Nested"]
Bip48Native == [bip |-> "Bip48Native"]
Bip87       == [bip |-> "Bip87"]
Bip43(purpose) == [bip |-> "Bip43", purpose |-> purpose]

\* #[display(..., alt = ...)] of Bip43; the purpose is written by the
\* Display of HdnIdx without the alternate flag
Bip43_to_string(self, alt) ==
    CASE self = Bip44 -> IF alt THEN <<"m", "/", "4", "4", "h">> ELSE <<"b", "i", "p", "4", "4">>
      [] self = Bip84 -> IF alt THEN <<"m", "/", "8", "4", "h">> ELSE <<"b", "i", "p", "8", "4">>
      [] self = Bip49 -> IF alt THEN <<"m", "/", "4", "9", "h">> ELSE <<"b", "i", "p", "4", "9">>
      [] self = Bip86 -> IF alt THEN <<"m", "/", "8", "6", "h">> ELSE <<"b", "i", "p", "8", "6">>
      [] self = Bip45 -> IF alt THEN <<"m", "/", "4", "5", "h">> ELSE <<"b", "i", "p", "4", "5">>
      [] self = Bip48Nested ->
            IF alt THEN <<"m", "/", "4", "8", "h", "/", "/", "1", "h">>
            ELSE <<"b", "i", "p", "4", "8", "-", "n", "e", "s", "t", "e", "d">>
      [] self = Bip48Native ->
            IF alt THEN <<"m", "/", "4", "8", "h", "/", "/", "2", "h">>
            ELSE <<"b", "i", "p", "4", "8", "-", "n", "a", "t", "i", "v", "e">>
      [] self = Bip87 -> IF alt THEN <<"m", "/", "8", "7", "h">> ELSE <<"b", "i", "p", "8", "7">>
      [] OTHER ->
            (IF alt THEN <<"m", "/">> ELSE <<"b", "i", "p", "4", "3", "/">>)
                \o HdnIdx_to_string(self.purpose, FALSE)

\* the match of Bip43::from_str on the lower-cased text
Bip43_match(s) ==
    LET b1  == strip_prefix(s, <<"b", "i", "p">>)
        bip == IF b1.some THEN b1 ELSE strip_prefix(s, <<"m", "/">>)
    IN  IF ~bip.some THEN Err(UnrecognizedBipScheme)
        ELSE LET b == bip.val IN
             IF b = <<"4", "4">> THEN Ok(Bip44)
             ELSE IF b = <<"8", "4">> THEN Ok(Bip84)
             ELSE IF b = <<"4", "9">> THEN Ok(Bip49)
             ELSE IF b = <<"8", "6">> THEN Ok(Bip86)
             ELSE IF b = <<"4", "5">> THEN Ok(Bip45)
             ELSE IF starts_with(b, <<"4", "8", "/", "/">>)
             THEN LET index == strip_prefix(b, <<"4", "8", "/", "/">>)
                      script_type == HdnIdx_from_str(index.val)
                  IN  IF script_type.ok /\ script_type.val.v = 1 THEN Ok(Bip48Nested)
                      ELSE IF script_type.ok /\ script_type.val.v = 2 THEN Ok(Bip48Native)
                      ELSE Err(InvalidBip48Scheme)
             ELSE IF b = <<"4", "8", "-", "n", "e", "s", "t", "e", "d">> THEN Ok(Bip48Nested)
             ELSE IF b = <<"4", "8", "-", "n", "a", "t", "i", "v", "e">> THEN Ok(Bip48Native)
             ELSE IF b = <<"8", "7">> THEN Ok(Bip87)
             ELSE IF starts_with(b, <<"4", "3", "/">>)
             THEN LET purpose == strip_prefix(b, <<"4", "3", "/">>) IN
                  IF purpose.some
                  THEN LET parsed == HdnIdx_from_str(purpose.val) IN
                       IF parsed.ok THEN Ok(Bip43(parsed.val))
                       ELSE Err(InvalidPurposeIndex(purpose.val))
                  ELSE Err(InvalidBip43Scheme)
             ELSE Err(UnrecognizedBipScheme)

\* variant of Bip43::from_str that matches the text as it is written
Bip43_from_str_case_sensitive(str) == Bip43_match(str)

\* impl FromStr for Bip43
Bip43_from_str(str) == Bip43_match(to_lowercase(str))

---------------------------------------------------------------------------
(* The scheme model: the caller parses texts, keeps the schemes it gets or
   builds one, prints the scheme it holds in either form and parses that *)

\* texts handed to Bip43::from_str
Bip43Inputs ==
    { <<"b", "i", "p", "4", "4">>,
      <<"b", "i", "p", "8", "4">>,
      <<"b", "i", "p", "4", "9">>,
      <<"b", "i", "p", "8", "6">>,
      <<"b", "i", "p", "4", "5">>,
      <<"b", "i", "p", "8", "7">>,
      <<"b", "i", "p", "4", "8", "-", "n", "e", "s", "t", "e", "d">>,
      <<"b", "i", "p", "4", "8", "-", "n", "a", "t", "i", "v", "e">>,
      <<"b", "i", "p", "4", "8", "/", "/", "1", "h">>,
      <<"b", "i", "p", "4", "8", "/", "/", "2", "h">>,
      <<"b", "i", "p", "4", "8", "/", "/", "3", "h">>,
      <<"b", "i", "p", "4", "8", "/", "/", "1">>,
      <<"b", "i", "p", "4", "8", "/", "/", "x">>,
      <<"b", "i", "p", "4", "8", "/", "/">>,
      <<"b", "i", "p", "4", "8", "-", "f", "o", "o">>,
      <<"b", "i", "p", "4", "8">>,
      <<"b", "i", "p", "4", "3", "/", "5", "h">>,
      <<"b", "i", "p", "4", "3", "/", "5">>,
      <<"b", "i", "p", "4", "3", "/", "x", "h">>,
      <<"b", "i", "p", "4", "3", "/", "1", "6", "h">>,
      <<"b", "i", "p", "4", "3", "/", "3", "1", "h">>,
      <<"b", "i", "p", "4", "3", "/", "3", "2", "h">>,
      <<"b", "i", "p", "4", "3", "/", "0", "'">>,
      <<"b", "i", "p", "4", "3", "/">>,
      <<"b", "i", "p", "4", "3">>,
      <<"b", "i", "p", "9", "9">>,
      <<"4", "4">>,
      <<"m", "/", "4", "4">>,
      <<"m", "/", "4", "4", "h">>,
      <<"m", "/", "4", "8", "h", "/", "/", "1", "h">>,
      <<"m", "/", "4", "8", "/", "/", "2", "'">>,
      <<"m", "/", "4", "3", "/", "1", "h">>,
      <<"m", "/", "5", "h">>,
      <<>>,
      <<"b", "i", "p">>,
      <<"m", "/">>,
      <<"B", "i", "p", "4", "4">>,
      <<"b", "I", "p", "4", "8", "-", "N", "e", "S", "t", "e", "d">>,
      <<"x", "b", "i", "p", "4", "4">> }

\* schemes the caller builds itself; the purpose is any HdnIdx it can hold
Bip43Purposes ==
    {HdnIdx_zero, HdnIdx_one, HdnIdx(5), HdnIdx_largest, HdnIdx(HARDENED_INDEX_BOUNDARY)}
Bip43Values ==
    {Bip44, Bip84, Bip49, Bip86, Bip45, Bip48Nested, Bip48Native, Bip87}
        \cup {Bip43(h) : h \in Bip43Purposes}

BCall(op, arg, out) == [op |-> op, recv |-> scheme, arg |-> arg, out |-> out]

Bip43FromStr ==
    /\ bret = BIdle
    /\ bret' = BCall("from_str", text, Bip43_from_str(text))
    /\ UNCHANGED <<idxVars, buf, text, xpub, xret, scheme>>

Bip43Display(alt) ==
    /\ bret = BIdle
    /\ scheme # NoScheme
    /\ bret' = BCall("to_string", alt, Bip43_to_string(scheme, alt))
    /\ UNCHANGED <<idxVars, buf, text, xpub, xret, scheme>>

\* the caller builds a scheme
Bip43Make(v) ==
    /\ bret = BIdle
    /\ scheme' = v
    /\ UNCHANGED <<idxVars, buf, text, xpub, xret, bret>>

\* the caller keeps the scheme a parse returned
TakeScheme ==
    /\ bret.op = "from_str"
    /\ bret.out.ok
    /\ scheme' = bret.out.val
    /\ bret' = BIdle
    /\ UNCHANGED <<idxVars, buf, text, xpub, xret>>

\* the caller keeps the text Display wrote
TakeSchemeText ==
    /\ bret.op = "to_string"
    /\ text' = bret.out
    /\ bret' = BIdle
    /\ UNCHANGED <<idxVars, buf, xpub, xret, scheme>>

\* the caller writes its text in capitals
UpperCase ==
    /\ bret = BIdle
    /\ text' = to_uppercase(text)
    /\ text' # text
    /\ UNCHANGED <<idxVars, buf, xpub, xret, scheme, bret>>

BReturn ==
    /\ bret # BIdle
    /\ bret' = BIdle
    /\ UNCHANGED <<idxVars, buf, text, xpub, xret, scheme>>

InitBip43 ==
    /\ build = "release" /\ slot = NormIdx(0) /\ ret = Idle
    /\ buf = <<>> /\ xpub = NoXpub /\ xret = XIdle
    /\ text \in Bip43Inputs
    /\ scheme = NoScheme /\ bret = BIdle

NextBip43 ==
    \/ Bip43FromStr
    \/ \E alt \in BOOLEAN : Bip43Display(alt)
    \/ \E v \in Bip43Values : Bip43Make(v)
    \/ TakeScheme
    \/ TakeSchemeText
    \/ UpperCase
    \/ BReturn

SpecBip43 == InitBip43 /\ [][NextBip43]_vars

---------------------------------------------------------------------------
(* Claims about Bip43 (checked under SpecBip43) *)

\* the canonical short forms and the scheme each stands for
ShortForms ==
    { <<<<"b", "i", "p", "4", "4">>, Bip44>>,
      <<<<"b", "i", "p", "4", "9">>, Bip49>>,
      <<<<"b", "i", "p", "8", "4">>, Bip84>>,
      <<<<"b", "i", "p", "8", "6">>, Bip86>>,
      <<<<"b", "i", "p", "4", "5">>, Bip45>>,
      <<<<"b", "i", "p", "8", "7">>, Bip87>>,
      <<<<"b", "i", "p", "4", "8", "-", "n", "e", "s", "t", "e", "d">>, Bip48Nested>>,
      <<<<"b", "i", "p", "4", "8", "-", "n", "a", "t", "i", "v", "e">>, Bip48Native>>,
      <<<<"b", "i", "p", "4", "8", "/", "/", "1", "h">>, Bip48Nested>>,
      <<<<"b", "i", "p", "4", "8", "/", "/", "2", "h">>, Bip48Native>> }
        \cup {<<<<"b", "i", "p", "4", "3", "/">> \o ToDec(n) \o <<"h">>, Bip43(HdnIdx(n))>> :
                    n \in 0 .. HARDENED_INDEX_BOUNDARY - 1}

\* C15: from_str inverts Display: the plain rendering of the scheme the
\* caller holds parses to that scheme; each canonical short form (bip44 ...
\* bip48//1h, bip48//2h, bip43/<n>h) parses to its scheme, in whatever case
\* its letters are written, and a text and its upper-cased copy always get
\* the same result.
C15_FromStrInvertsDisplay ==
    bret.op = "from_str" =>
        /\ (bret.recv # NoScheme /\ bret.arg = Bip43_to_string(bret.recv, FALSE))
                => bret.out = Ok(bret.recv)
        /\ \A f \in ShortForms :
                to_lowercase(bret.arg) = f[1] => bret.out = Ok(f[2])
        /\ Bip43_from_str(to_uppercase(bret.arg)) = bret.out

\* the generic scheme was printed, the text put in capitals and parsed back
C15_Witness ==
    /\ bret.op = "from_str"
    /\ bret.recv = Bip43(HdnIdx(5))
    /\ bret.arg = <<"B", "I", "P", "4", "3", "/", "5", "H">>
    /\ bret.out = Ok(Bip43(HdnIdx(5)))

\* C16: from_str accepts the path-style form: the alternate rendering of
\* the scheme the caller holds (m/44h, m/48h//1h, m/<purpose>h, ...) parses
\* to that same scheme.
C16_FromStrAcceptsPathForm ==
    (/\ bret.op = "from_str"
     /\ bret.recv # NoScheme
     /\ bret.arg = Bip43_to_string(bret.recv, TRUE))
        => bret.out = Ok(bret.recv)

\* the text after the `bip` or `m/` prefix, None when there is neither
SchemeBody(str) ==
    LET s  == to_lowercase(str)
        b1 == strip_prefix(s, <<"b", "i", "p">>)
    IN  IF b1.some THEN b1 ELSE strip_prefix(s, <<"m", "/">>)

\* a numeral in 0 .. 2^31-1 followed by a hardened suffix
IsHardenedIndexText(t) ==
    /\ EndsWithSuffix(t)
    /\ LET n == U32FromStr(StripSuffix(t).val) IN
        n.ok /\ n.val < HARDENED_INDEX_BOUNDARY

HardenedIndexValue(t) == U32FromStr(StripSuffix(t).val).val

\* C17: rejected input is classified by kind: a text that is none of the
\* recognized forms fails with UnrecognizedBipScheme; a 48// form whose
\* suffix is not the hardened index 1 or 2 fails with InvalidBip48Scheme; a
\* 43/<purpose> form whose purpose is not a numeral of 0..2^31-1 with a
\* hardened suffix fails with InvalidPurposeIndex carrying the purpose.
C17_ErrorClassification ==
    bret.op = "from_str" =>
        LET bip == SchemeBody(bret.arg) IN
        IF ~bip.some THEN bret.out = Err(UnrecognizedBipScheme)
        ELSE LET b == bip.val IN
             IF starts_with(b, <<"4", "8", "/", "/">>)
             THEN LET t == SubSeq(b, 5, Len(b)) IN
                  ~(IsHardenedIndexText(t) /\ HardenedIndexValue(t) \in {1, 2})
                      => bret.out = Err(InvalidBip48Scheme)
             ELSE IF starts_with(b, <<"4", "3", "/">>)
             THEN LET purpose == SubSeq(b, 4, Len(b)) IN
                  ~IsHardenedIndexText(purpose)
                      => bret.out = Err(InvalidPurposeIndex(purpose))
             ELSE b \notin { <<"4", "4">>, <<"4", "9">>, <<"8", "4">>, <<"8", "6">>, <<"4", "5">>, <<"8", "7">>, <<"4", "8", "-", "n", "e", "s", "t", "e", "d">>, <<"4", "8", "-", "n", "a", "t", "i", "v", "e">> }
                      => bret.out = Err(UnrecognizedBipScheme)

---------------------------------------------------------------------------
(* Further properties of the index model, checked under SpecIdx *)

AssignOps ==
    {"checked_add_assign", "checked_sub_assign", "checked_inc_assign", "checked_dec_assign"}

\* C22: an in-place operation that returns None leaves the receiver as it
\* was before the call; one that returns Some(n) leaves it with index n.
C22_FailedAssignKeepsIndex ==
    ret.op \in AssignOps =>
        /\ ~ret.out.some => slot = ret.recv
        /\ ret.out.some => first_index(slot) = ret.out.val

C24_ParsingDispatchesOnSuffix ==
    /\ ret.op = "from_str" =>
         \A n \in 0 .. HARDENED_INDEX_BOUNDARY - 1 :
            /\ (\E sfx \in HardenedSuffixes : ret.arg = ToDec(n) \o <<sfx>>) =>
                  /\ ret.ty = "HdnIdx" => ret.out = Ok(HdnIdx(n))
                  /\ ret.ty = "ChildIdx" => ret.out = Ok(Hardened(HdnIdx(n)))
                  /\ ret.ty \in {"HdnIdx", "ChildIdx"} =>
                        /\ first_index(ret.out.val) = n
                        /\ first_raw_value(ret.out.val) = Val(n + HARDENED_INDEX_BOUNDARY)
            /\ ret.arg = ToDec(n) =>
                  /\ ret.ty = "NormIdx" => ret.out = Ok(NormIdx(n))
                  /\ ret.ty = "ChildIdx" => ret.out = Ok(Normal(NormIdx(n)))
                  /\ ret.ty \in {"NormIdx", "ChildIdx"} =>
                        first_raw_value(ret.out.val) = Val(n)
                  /\ ret.ty = "HdnIdx" =>
                        ret.out = Err(Unsupported(Unhardened(HdnIdxExpected(NormIdx(n)))))
    /\ (ret.op = "to_string" /\ ret.ty = "HdnIdx") =>
         ret.out = ToDec(ret.recv.v) \o (IF ret.arg THEN <<"'">> ELSE <<"h">>)

\* the largest hardened numeral with the capital suffix was parsed as ChildIdx
C24_Witness ==
    /\ ret.op = "from_str"
    /\ ret.ty = "ChildIdx"
    /\ ret.arg = ToDec(HARDENED_INDEX_BOUNDARY - 1) \o <<"H">>
    /\ ret.out = Ok(Hardened(HdnIdx_largest))

\* C25: an index string with a numeral in 2^31..2^32-1 is rejected: the bare
\* numeral fails with Overflow(IndexOverflow(n)), the numeral followed by h,
\* H or ' fails with a parse error as well.
C25_OutOfRangeNumeralRejected ==
    ret.op = "from_str" =>
        \A n \in HARDENED_INDEX_BOUNDARY .. U32Max :
            /\ ret.arg = ToDec(n) => ret.out = Err(Overflow(IndexOverflow(n)))
            /\ (\E sfx \in HardenedSuffixes : ret.arg = ToDec(n) \o <<sfx>>) => ~ret.out.ok

\* C26: for every index the caller holds or was handed, is_hardened() is true
\* exactly when first_raw_value() is at or above the boundary; it is false
\* for a NormIdx and true for an HdnIdx.
C26_IsHardenedAgreesWithRawValue ==
    \A x \in IdxIn(slot) \cup Carried(ret) :
        LET raw == first_raw_value(x) IN
        /\ ~raw.panic
        /\ is_hardened(x) <=> raw.val >= HARDENED_INDEX_BOUNDARY
        /\ x.ty = "NormIdx" => ~is_hardened(x)
        /\ x.ty = "HdnIdx" => is_hardened(x)

\* C27: x.contains(i) is true exactly when i is x.first_index(), for the
\* three types alike; count() is 1; ChildIdx::Hardened(h) answers as h does.
C27_ContainsIsMembership ==
    /\ count(slot) = 1
    /\ ret.op = "contains" =>
         /\ ret.out <=> ret.arg = first_index(ret.recv)
         /\ (ret.recv.ty = "ChildIdx" /\ ret.recv.tag = "Hardened") =>
               (ret.out <=> HdnIdx_contains(ret.recv.idx, ret.arg))

---------------------------------------------------------------------------
(* Derivation with the index the caller holds: the caller builds normal
   indexes, steps them in place, and derives children of a master key with
   the index it holds *)

CkdIdxInputs == {Layout(MAGIC_MAINNET, 0, k) : k \in {KeyEven, KeyOdd}}

\* ckd_pub with the caller's index; `impl Into<NormIdx>` admits a NormIdx
CkdPubHeld ==
    /\ ret = Idle
    /\ slot.ty = "NormIdx"
    /\ xpub # NoXpub
    /\ depth(xpub) = 0
    /\ CkdPub(slot)

\* derive with a path that ends in the caller's index
DeriveHeld ==
    /\ ret = Idle
    /\ slot.ty = "NormIdx"
    /\ xpub # NoXpub
    /\ depth(xpub) = 0
    /\ Derive(<<NormIdx_zero, slot>>)

InitCkdIdx ==
    /\ build = "release" /\ slot = NormIdx(0) /\ ret = Idle
    /\ buf \in CkdIdxInputs
    /\ text = <<>> /\ xpub = NoXpub /\ xret = XIdle
    /\ scheme = NoScheme /\ bret = BIdle

NextCkdIdx ==
    \/ \E w \in {"zero", "one", "largest"} : xret = XIdle /\ Canonical("NormIdx", w)
    \/ \E n \in {1, 2} : xret = XIdle /\ CheckedAddAssign(n)
    \/ xret = XIdle /\ CheckedDecAssign
    \/ \E x \in Carried(ret) : Take(x)
    \/ Return
    \/ ret = Idle /\ DecodeBinary
    \/ TakeXpub
    \/ CkdPubHeld
    \/ DeriveHeld
    \/ XReturn

SpecCkdIdx == InitCkdIdx /\ [][NextCkdIdx]_vars

\* C21: a key derived with a NormIdx the caller holds - whatever calls left
\* it there, a failed checked_add_assign included - stores a child number
\* whose raw value is below the boundary: the four index bytes, which are
\* also the bytes fed to the HMAC, do not have the hardened bit.
C21_DerivedChildNumberIsNormal ==
    (xret.op \in {"ckd_pub", "derive"} /\ xret.out.ok) =>
        from_be_bytes(Slice(xret.out.val.xpub, 9, 13)) < HARDENED_INDEX_BOUNDARY

---------------------------------------------------------------------------
(* The accessors: the caller decodes a buffer, keeps the key and reads its
   fields *)

\* the child-number fields of the buffers: normal and hardened raw values
FieldChildNumbers ==
    {to_be_bytes(v) : v \in {0, 1, HARDENED_INDEX_BOUNDARY - 1,
                             HARDENED_INDEX_BOUNDARY, U32Max}}

WithChildNumber(b, cn) == Slice(b, 0, 9) \o cn \o Slice(b, 13, XKEY_LEN)

FieldInputs ==
    {WithChildNumber(Layout(m, d, k), cn) :
        m \in {MAGIC_MAINNET, MAGIC_TESTNET, MAGIC_XPRV}, d \in {0, 7, 255},
        k \in {KeyEven, KeyOdd, KeyBadTag}, cn \in FieldChildNumbers}

Accessors ==
    {"is_mainnet", "is_testnet", "depth", "parent_fingerprint", "child_number",
     "chain_code", "public_key"}

Accessor(f) ==
    /\ xret = XIdle
    /\ xpub # NoXpub
    /\ xret' = XCall(f, <<>>,
                     CASE f = "is_mainnet" -> is_mainnet(xpub)
                       [] f = "is_testnet" -> is_testnet(xpub)
                       [] f = "depth" -> depth(xpub)
                       [] f = "parent_fingerprint" -> parent_fingerprint(xpub)
                       [] f = "child_number" -> child_number(xpub)
                       [] f = "chain_code" -> chain_code(xpub)
                       [] f = "public_key" -> public_key(xpub))
    /\ UNCHANGED <<idxVars, bipVars, buf, text, xpub>>

InitFields ==
    /\ build = "release" /\ slot = NormIdx(0) /\ ret = Idle
    /\ buf \in FieldInputs
    /\ text = <<>> /\ xpub = NoXpub /\ xret = XIdle
    /\ scheme = NoScheme /\ bret = BIdle

NextFields ==
    \/ DecodeBinary
    \/ TakeXpub
    \/ \E f \in Accessors : Accessor(f)
    \/ XReturn

SpecFields == InitFields /\ [][NextFields]_vars

---------------------------------------------------------------------------
(* Further properties of Bip43 (checked under SpecBip43) and of the text
   codec (checked under SpecXpubText) *)

\* C29: a text with the `bip43/` or `m/43/` prefix whose purpose part is
\* empty fails with InvalidBip43Scheme, not with InvalidPurposeIndex.
C29_MalformedBip43Suffix ==
    (/\ bret.op = "from_str"
     /\ SchemeBody(bret.arg).some
     /\ SchemeBody(bret.arg).val = <<"4", "3", "/">>)
        => bret.out = Err(InvalidBip43Scheme)

\* C30: in InvalidChecksum { expected, actual } `expected` is the first four
\* bytes of the double SHA-256 of the 78 payload bytes and `actual` the four
\* bytes that follow the payload in the decoded input.
C30_ChecksumErrorRoles ==
    (/\ xret.op = "from_str"
     /\ ~xret.out.ok
     /\ xret.out.err.e = "InvalidChecksum")
        => LET data == from_base58(xret.arg).val IN
           /\ xret.out.err.expected = Slice(sha256d(Slice(data, 0, XKEY_LEN)), 0, 4)
           /\ xret.out.err.actual = Slice(data, XKEY_LEN, XKEY_LEN + 4)

===========================================================================
